---- MODULE Spec2Model ----
(***************************************************************************)
(* Model of ffmpegx: the command builder (src/src/FfmpegCommand.ts), the   *)
(* process runner FfmpegX and the orchestrator executeFfmpeg               *)
(* (src/packages/core/src/execute.ts).                                     *)
(*                                                                         *)
(* Text that the code inspects character by character (stderr, progress    *)
(* lines) is a sequence of one-character strings.  Argument tokens and     *)
(* paths, which the code only compares and concatenates, are strings.      *)
(***************************************************************************)
EXTENDS Integers, Sequences, FiniteSets, TLC

VARIABLES
    \* FfmpegCommand fields
    globalArgs, inputArgs, outputArgs, inputFile, outputFile,
    \* the operator calls made on the command so far, the result of the last
    \* read of finalArgs
    calls, rendered,
    \* executeFfmpeg: position, state of the callback fn, its promise
    pc, fn, outer,
    \* FfmpegX: number of registered listeners, number of listeners ever
    \* registered, the `process` field, the notifications emitted so far
    listeners, registered, process, emitted,
    \* the closure of one execute call: stdoutChunks, stderr, stderrBuffer and
    \* the promise's resolve/reject pair
    exec,
    \* the subprocess, the chunks it has delivered, calls of kill
    child, delivered, killCalls,
    \* the execute calls made directly on the runner, each with its subprocess,
    \* its closure and the chunks delivered
    runs,
    \* VideoFrameExtractor: its fields, the number of initialize calls that
    \* await the probe, what the completed initialize calls returned, the last
    \* extract call
    extractor, probes, initCalls, extraction,
    \* one FfmpegX.probe call: its subprocess, the chunks delivered, the stdout
    \* and stderr text of its closure and its promise
    probing

cmdVars == <<globalArgs, inputArgs, outputArgs, inputFile, outputFile>>
runVars == <<pc, fn, outer, listeners, registered, process, emitted, exec, child, delivered, killCalls,
            runs, probing>>
samplerVars == <<extractor, probes, initCalls, extraction>>
vars == <<globalArgs, inputArgs, outputArgs, inputFile, outputFile, calls, rendered,
          pc, fn, outer, listeners, registered, process, emitted, exec, child, delivered, killCalls,
          runs, extractor, probes, initCalls, extraction, probing>>

(***************************************************************************)
(* Bounds                                                                  *)
(***************************************************************************)
MaxOps == 3          \* operator calls on one command
MaxErrChunks == 2    \* stderr data events of one subprocess
MaxOutChunks == 2    \* stdout data events of one subprocess
MaxListeners == 1    \* listeners registered on one runner
MaxKills == 1        \* kill calls on one runner
MaxExecutes == 2     \* execute calls made directly on one runner
MaxRunChunks == 1    \* data events of the subprocesses of those calls
MaxLineChunks == 3   \* stderr data events of a stream cut at any position
MaxProbeChunks == 2  \* data events of each stream of the probe subprocess
MaxInits == 2        \* initialize calls that await the probe at one time
MaxTotalFrames == 8  \* frames of a sampled video

(***************************************************************************)
(* JavaScript values                                                       *)
(***************************************************************************)
\* `null` for a nullable field is the empty tuple, a set value v is <<v>>
Null == <<>>
Some(v) == <<v>>

\* truthiness of a `string | null`: null and "" are falsy
Truthy(f) == f # Null /\ f[1] # ""

Undefined == [t |-> "undef"]
NaN == [t |-> "NaN"]
StrVal(s) == [t |-> "str", s |-> s]
\* a number is the fraction n/d in lowest terms
NumVal(n) == [t |-> "num", n |-> n, d |-> 1]

RECURSIVE GCD(_, _)
GCD(a, b) == IF b = 0 THEN a ELSE GCD(b, a % b)

Frac(n, d) ==
    LET g == GCD(IF n < 0 THEN -n ELSE n, d)
    IN  IF n = 0 THEN NumVal(0) ELSE [t |-> "num", n |-> n \div g, d |-> d \div g]

\* String(value) for a `string | number`; the numbers passed are integers
String(v) == IF v.t = "num" THEN ToString(v.n) ELSE v.s

(***************************************************************************)
(* Text                                                                    *)
(***************************************************************************)
CR == "\r"
LF == "\n"
Whitespace == {" ", "\t", CR, LF}
DigitChars == <<"0", "1", "2", "3", "4", "5", "6", "7", "8", "9">>
Digits == {DigitChars[i] : i \in 1..10}
DigitVal(c) == (CHOOSE i \in 1..10 : DigitChars[i] = c) - 1

\* s.startsWith(p)
StartsWith(s, p) == Len(s) >= Len(p) /\ SubSeq(s, 1, Len(p)) = p

\* s.includes(c) for a one-character c
Includes(s, c) == \E i \in 1..Len(s) : s[i] = c

\* the positions 1..Len(s), in increasing order
Indices(s) == [i \in 1..Len(s) |-> i]

\* the pieces of s between separators; the separators start at the positions
\* `at` (increasing) and the one at position p is width[p] characters long.
\* There is always at least one piece.
Pieces(s, at, width) ==
    [k \in 1..(Len(at) + 1) |->
        SubSeq(s, IF k = 1 THEN 1 ELSE at[k - 1] + width[at[k - 1]],
                  IF k = Len(at) + 1 THEN Len(s) ELSE at[k] - 1)]

\* s.split(c) for a one-character separator c
Split(s, c) ==
    Pieces(s, SelectSeq(Indices(s), LAMBDA i : s[i] = c), [i \in 1..Len(s) |-> 1])

\* s.split(c, limit): the first `limit` pieces, the rest is dropped
SplitLimit(s, c, limit) ==
    LET all == Split(s, c)
    IN  IF Len(all) > limit THEN SubSeq(all, 1, limit) ELSE all

\* s.split(/\r\n|\n|\r/): the scan tries \r\n first, so a \r takes the \n
\* that follows it and every other \n or \r is a separator of its own
SplitLines(s) ==
    Pieces(s,
           SelectSeq(Indices(s),
                     LAMBDA i : s[i] = CR \/ (s[i] = LF /\ ~(i > 1 /\ s[i - 1] = CR))),
           [i \in 1..Len(s) |-> IF s[i] = CR /\ i < Len(s) /\ s[i + 1] = LF THEN 2 ELSE 1])

\* s.trim()
TrimLeft(s) ==
    LET keep == {i \in 1..Len(s) : s[i] \notin Whitespace}
    IN  IF keep = {} THEN <<>>
        ELSE SubSeq(s, CHOOSE i \in keep : \A j \in keep : i <= j, Len(s))
TrimRight(s) ==
    LET keep == {i \in 1..Len(s) : s[i] \notin Whitespace}
    IN  IF keep = {} THEN <<>>
        ELSE SubSeq(s, 1, CHOOSE i \in keep : \A j \in keep : i >= j)
Trim(s) == TrimRight(TrimLeft(s))

\* the longest prefix of s made of digits
DigitPrefix(s) ==
    LET stop == {i \in 1..Len(s) : s[i] \notin Digits}
    IN  IF stop = {} THEN s
        ELSE SubSeq(s, 1, (CHOOSE i \in stop : \A j \in stop : i <= j) - 1)

RECURSIVE DigitsValue(_, _)
DigitsValue(ds, acc) ==
    IF ds = <<>> THEN acc ELSE DigitsValue(Tail(ds), 10 * acc + DigitVal(Head(ds)))

RECURSIVE Pow10(_)
Pow10(k) == IF k = 0 THEN 1 ELSE 10 * Pow10(k - 1)

\* parseInt(s, 10): leading whitespace, a sign, then digits; NaN without a digit
parseInt(s) ==
    LET t == TrimLeft(s)
        neg == t # <<>> /\ Head(t) = "-"
        u == IF t # <<>> /\ Head(t) \in {"-", "+"} THEN Tail(t) ELSE t
        ds == DigitPrefix(u)
    IN  IF ds = <<>> THEN NaN
        ELSE NumVal(IF neg THEN -DigitsValue(ds, 0) ELSE DigitsValue(ds, 0))

\* parseFloat(s): leading whitespace, a sign, digits, then `.` and digits;
\* NaN without a digit (exponents and Infinity do not occur in ffmpeg's
\* progress fields and are not read here)
parseFloat(s) ==
    LET t == TrimLeft(s)
        neg == t # <<>> /\ Head(t) = "-"
        u == IF t # <<>> /\ Head(t) \in {"-", "+"} THEN Tail(t) ELSE t
        ip == DigitPrefix(u)
        v == SubSeq(u, Len(ip) + 1, Len(u))
        fp == IF v # <<>> /\ Head(v) = "." THEN DigitPrefix(Tail(v)) ELSE <<>>
        mag == DigitsValue(ip \o fp, 0)
    IN  IF ip = <<>> /\ fp = <<>> THEN NaN
        ELSE Frac(IF neg THEN -mag ELSE mag, Pow10(Len(fp)))

\* chunk.toString(): UTF-8 decoding of the bytes of one chunk.  An ASCII byte
\* is written as its character; "C3" "A9" are the two bytes of U+00E9.  A
\* sequence that is cut off at the end of the chunk, or a continuation byte
\* without its lead byte, decodes to U+FFFD.
toString(bytes) ==
    LET paired(i) == bytes[i] = "A9" /\ i > 1 /\ bytes[i - 1] = "C3"
        at == SelectSeq(Indices(bytes), LAMBDA i : ~paired(i))
    IN  [k \in 1..Len(at) |->
            IF bytes[at[k]] = "C3" /\ at[k] < Len(bytes) /\ bytes[at[k] + 1] = "A9"
            THEN "U+00E9"
            ELSE IF bytes[at[k]] \in {"C3", "A9"} THEN "U+FFFD"
            ELSE bytes[at[k]]]

\* Array.prototype.join(" ") on strings
RECURSIVE Join(_)
Join(ss) ==
    IF ss = <<>> THEN ""
    ELSE IF Len(ss) = 1 THEN ss[1]
    ELSE ss[1] \o " " \o Join(Tail(ss))

(***************************************************************************)
(* parseProgress                                                           *)
(***************************************************************************)
FramePrefix == <<"f", "r", "a", "m", "e", "=">>
KeyFrame == <<"f", "r", "a", "m", "e">>
KeyFps == <<"f", "p", "s">>
KeyQ == <<"q">>
KeySize == <<"s", "i", "z", "e">>
KeyTime == <<"t", "i", "m", "e">>
KeyBitrate == <<"b", "i", "t", "r", "a", "t", "e">>
KeySpeed == <<"s", "p", "e", "e", "d">>

\* `{ raw: line }`: every other field is still undefined
NewProgress(line) ==
    [raw |-> line, frame |-> Undefined, fps |-> Undefined, q |-> Undefined,
     size |-> Undefined, time |-> Undefined, bitrate |-> Undefined,
     speed |-> Undefined]

\* one round of the for loop: item.split("=", 2), trim, switch
ParseItem(progress, item) ==
    LET kv == SplitLimit(item, "=", 2)
        trimmedKey == Trim(kv[1])
        trimmedValue == Trim(kv[2])
    IN  CASE trimmedKey = KeyFrame   -> [progress EXCEPT !.frame = parseInt(trimmedValue)]
          [] trimmedKey = KeyFps     -> [progress EXCEPT !.fps = parseFloat(trimmedValue)]
          [] trimmedKey = KeyQ       -> [progress EXCEPT !.q = parseFloat(trimmedValue)]
          [] trimmedKey = KeySize    -> [progress EXCEPT !.size = StrVal(trimmedValue)]
          [] trimmedKey = KeyTime    -> [progress EXCEPT !.time = StrVal(trimmedValue)]
          [] trimmedKey = KeyBitrate -> [progress EXCEPT !.bitrate = StrVal(trimmedValue)]
          [] trimmedKey = KeySpeed   -> [progress EXCEPT !.speed = StrVal(trimmedValue)]
          [] OTHER -> progress

RECURSIVE ParseItems(_, _)
ParseItems(progress, items) ==
    IF items = <<>> THEN progress
    ELSE ParseItems(ParseItem(progress, Head(items)), Tail(items))

\* line.split(" ").filter((item) => item.includes("="))
ProgressItems(line) == SelectSeq(Split(line, " "), LAMBDA item : Includes(item, "="))

\* `progress.time ?` : undefined and "" are falsy
TimeCaptured(progress) == progress.time.t = "str" /\ progress.time.s # <<>>

\* the result: Null, or <<sample>>
parseProgress(line) ==
    IF ~StartsWith(line, FramePrefix) THEN Null
    ELSE LET progress == ParseItems(NewProgress(line), ProgressItems(line))
         IN  IF TimeCaptured(progress) THEN Some(progress) ELSE Null

(***************************************************************************)
(* FfmpegCommand                                                           *)
(***************************************************************************)
NewCommand ==
    [globalArgs |-> <<>>, inputArgs |-> <<>>, outputArgs |-> <<>>,
     inputFile |-> Null, outputFile |-> Null]

\* An operator call is a record [op, file] or [op, key, value].
InputOp(file)  == [op |-> "input", file |-> file]
OutputOp(file) == [op |-> "output", file |-> file]
GlobalOpt(key, value) == [op |-> "addGlobalOption", key |-> key, value |-> value]
InputOpt(key, value)  == [op |-> "addInputOption", key |-> key, value |-> value]
OutputOpt(key, value) == [op |-> "addOutputOption", key |-> key, value |-> value]

\* the convenience operators delegate to the three primitives
overwrite == GlobalOpt("-y", Undefined)
logLevel(level) == GlobalOpt("-v", StrVal(level))
seekInput(timestamp) == InputOpt("-ss", timestamp)
frames(count) == OutputOpt("-vframes", count)
noAudio == OutputOpt("-an", Undefined)
outputFormat(format) == OutputOpt("-f", StrVal(format))

\* list.push(key); if (value !== undefined) list.push(String(value))
PushKeyOnly(list, key, value) == Append(list, key)
PushOption(list, key, value) ==
    IF value # Undefined THEN Append(Append(list, key), String(value))
    ELSE Append(list, key)

ApplyOp(cmd, c) ==
    CASE c.op = "input"  -> [cmd EXCEPT !.inputFile = Some(c.file)]
      [] c.op = "output" -> [cmd EXCEPT !.outputFile = Some(c.file)]
      [] c.op = "addGlobalOption" ->
            [cmd EXCEPT !.globalArgs = PushOption(@, c.key, c.value)]
      [] c.op = "addInputOption" ->
            [cmd EXCEPT !.inputArgs = PushOption(@, c.key, c.value)]
      [] c.op = "addOutputOption" ->
            [cmd EXCEPT !.outputArgs = PushOption(@, c.key, c.value)]

RECURSIVE ApplyOps(_, _)
ApplyOps(cmd, cs) ==
    IF cs = <<>> THEN cmd ELSE ApplyOps(ApplyOp(cmd, Head(cs)), Tail(cs))

MsgNoInput == "Input file not specified. Please call .setInput() or use a command builder to configure."
MsgNoFormat == "Output format is required when no output file is specified."

Error(message) == [name |-> "Error", message |-> message]
Threw(error) == [ok |-> FALSE, error |-> error]
Returned(v) == [ok |-> TRUE, value |-> v]

\* outputArgs.some((arg, i) => arg === "-f" && i < outputArgs.length - 1)
hasFormatAnywhere(args) == \E i \in 1..Len(args) : args[i] = "-f"
hasFormat(args) == \E i \in 1..Len(args) : args[i] = "-f" /\ i < Len(args)

\* the body of buildArgs after the check of inputFile
buildArgsTail(cmd, input) ==
    LET finalArgs == cmd.globalArgs \o cmd.inputArgs \o <<"-i", input>> \o cmd.outputArgs
    IN  IF Truthy(cmd.outputFile) THEN Returned(Append(finalArgs, cmd.outputFile[1]))
        ELSE IF ~hasFormat(cmd.outputArgs) THEN Threw(Error(MsgNoFormat))
        ELSE Returned(Append(finalArgs, "pipe:1"))

buildArgsUnchecked(cmd) ==
    buildArgsTail(cmd, IF cmd.inputFile = Null THEN "null" ELSE cmd.inputFile[1])
buildArgs(cmd) ==
    IF ~Truthy(cmd.inputFile) THEN Threw(Error(MsgNoInput))
    ELSE buildArgsTail(cmd, cmd.inputFile[1])

\* the command held in the variables
Cmd == [globalArgs |-> globalArgs, inputArgs |-> inputArgs, outputArgs |-> outputArgs,
        inputFile |-> inputFile, outputFile |-> outputFile]

SetCmd(cmd) ==
    /\ globalArgs' = cmd.globalArgs
    /\ inputArgs' = cmd.inputArgs
    /\ outputArgs' = cmd.outputArgs
    /\ inputFile' = cmd.inputFile
    /\ outputFile' = cmd.outputFile

\* finalArgs has not been read since the last operator call
NotRendered == [ok |-> FALSE, error |-> [name |-> "none", message |-> ""]]

\* the paths and operator calls a caller makes
InputPaths == {"in.mp4", ""}
OutputPaths == {"out.jpg", ""}
OperatorCalls ==
    {InputOp(f) : f \in InputPaths} \cup {OutputOp(f) : f \in OutputPaths}
    \cup {overwrite, logLevel("quiet"), seekInput(NumVal(5)), frames(NumVal(1)),
          noAudio, outputFormat("image2pipe"), OutputOpt("-f", Undefined)}

(***************************************************************************)
(* What the subprocess writes                                              *)
(***************************************************************************)
\* stderr lines: the progress line of the specification with padded values,
\* a progress line without padding, one without a time field, one whose
\* time value is separated from `time=` by a space, one that is not a
\* progress line
PaddedLine ==
    <<
      "f", "r", "a", "m", "e", "=", " ", " ", "1", "2", "0", " ",
      "f", "p", "s", "=", "2", "5", ".", "0", " ", "q", "=", "2",
      "3", ".", "0", " ", "s", "i", "z", "e", "=", " ", " ", " ",
      " ", "2", "5", "6", "k", "B", " ", "t", "i", "m", "e", "=",
      "0", "0", ":", "0", "0", ":", "0", "4", ".", "8", "0", " ",
      "b", "i", "t", "r", "a", "t", "e", "=", " ", "4", "2", "6",
      ".", "7", "k", "b", "i", "t", "s", "/", "s", " ", "s", "p",
      "e", "e", "d", "=", "0", ".", "9", "8", "x"
    >>
CompactLine ==
    <<
      "f", "r", "a", "m", "e", "=", "7", " ", "f", "p", "s", "=",
      "2", ".", "5", " ", "t", "i", "m", "e", "=", "0", "0", ":",
      "0", "1"
    >>
NoTimeLine ==
    <<
      "f", "r", "a", "m", "e", "=", "7", " ", "f", "p", "s", "=",
      "2", ".", "5"
    >>
EmptyTimeLine ==
    <<
      "f", "r", "a", "m", "e", "=", "7", " ", "t", "i", "m", "e",
      "=", " ", "0", "0", ":", "0", "1"
    >>
NotFrameLine ==
    <<
      "s", "i", "z", "e", "=", "1", "k", "B", " ", "t", "i", "m",
      "e", "=", "0", "0", ":", "0", "1"
    >>
PartialHead ==
    <<
      "f", "r", "a", "m", "e", "=", "7", " ", "t", "i"
    >>
PartialTail ==
    <<
      "m", "e", "=", "0", "0", ":", "0", "1", LF, "a", "C3"
    >>

\* the stderr chunks a data event can carry (bytes): lines ended by each of
\* the three line ends, two lines in one chunk, a line cut in two, and a
\* chunk that ends inside the two bytes of U+00E9
ErrChunks ==
    {PaddedLine \o <<LF>>,
     CompactLine \o <<CR>> \o NoTimeLine \o <<LF>>,
     EmptyTimeLine \o <<CR, LF>> \o NotFrameLine \o <<LF>>,
     PartialHead, PartialTail}

\* the stdout chunks a data event can carry (bytes)
OutChunks == {<<1>>, <<2, 3>>}

\* the exit codes of a subprocess that ran; -2 is the code of the close event
\* after a failed spawn (the negated errno ENOENT); a subprocess ended by a
\* signal closes with the code null
ExitCodes == {0, 1}
SpawnFailedCode == -2
SpawnError == Error("spawn ffmpeg ENOENT")
CallbackError == Error("callback failed")

(***************************************************************************)
(* Promises                                                                *)
(***************************************************************************)
NoPromise == [state |-> "none"]
Pending == [state |-> "pending"]
Fulfilled(v) == [state |-> "fulfilled", value |-> v]
Rejected(e) == [state |-> "rejected", reason |-> e]

\* resolve(v) and reject(e) act on a pending promise only
Resolve(p, v) == IF p.state = "pending" THEN Fulfilled(v) ELSE p
Reject(p, e) == IF p.state = "pending" THEN Rejected(e) ELSE p
Settled(p) == p.state \in {"fulfilled", "rejected"}

(***************************************************************************)
(* FfmpegX.execute                                                         *)
(***************************************************************************)
resolvedFfmpegPath == "ffmpeg"

\* the closure of an execute call; before the call there is no promise
NoExec == [stdoutChunks |-> <<>>, stderr |-> <<>>, stderrBuffer |-> <<>>,
           promise |-> NoPromise]
NewExec == [stdoutChunks |-> <<>>, stderr |-> <<>>, stderrBuffer |-> <<>>,
            promise |-> Pending]

\* `${this.resolvedFfmpegPath} ${finalArgs.join(" ")}`
CommandLineArgsOnly(finalArgs) == Join(finalArgs)
CommandLine(finalArgs) == resolvedFfmpegPath \o " " \o Join(finalArgs)

StartEvent(command) == [ev |-> "start", command |-> command]
StderrEvent(line) == [ev |-> "stderr", line |-> line]
ProgressEvent(data) == [ev |-> "progress", data |-> data]
EndEvent(result) == [ev |-> "end", result |-> result]
ErrorEvent(error, stderr) == [ev |-> "error", error |-> error, stderr |-> stderr]

\* a handler returns the closure after it ran and the notifications it emitted
Ran(e, emits) == [exec |-> e, emits |-> emits]

\* stdout "data": stdoutChunks.push(chunk)
OnStdoutData(e, chunk) ==
    Ran([e EXCEPT !.stdoutChunks = Append(@, chunk)], <<>>)

\* the body of the for loop over the completed lines
LineEventsProgressFirst(line) ==
    LET progress == parseProgress(line)
    IN  (IF progress # Null THEN <<ProgressEvent(progress[1])>> ELSE <<>>)
        \o <<StderrEvent(line)>>
LineEvents(line) ==
    LET progress == parseProgress(line)
    IN  <<StderrEvent(line)>>
        \o (IF progress # Null THEN <<ProgressEvent(progress[1])>> ELSE <<>>)

RECURSIVE LinesEvents(_)
LinesEvents(lines) ==
    IF lines = <<>> THEN <<>> ELSE LineEvents(Head(lines)) \o LinesEvents(Tail(lines))

\* stderr "data"
OnStderrDataFlushed(e, chunk) ==
    LET chunkStr == toString(chunk)
        lines == SplitLines(e.stderrBuffer \o chunkStr)
    IN  Ran([e EXCEPT !.stderr = @ \o chunkStr, !.stderrBuffer = <<>>],
            LinesEvents(lines))
OnStderrData(e, chunk) ==
    LET chunkStr == toString(chunk)
        lines == SplitLines(e.stderrBuffer \o chunkStr)
    IN  \* lines.pop() || "": the last piece, which always exists
        Ran([e EXCEPT !.stderr = @ \o chunkStr, !.stderrBuffer = lines[Len(lines)]],
            LinesEvents(SubSeq(lines, 1, Len(lines) - 1)))

\* Buffer.concat(chunks)
RECURSIVE BufferConcat(_)
BufferConcat(chunks) ==
    IF chunks = <<>> THEN <<>> ELSE Head(chunks) \o BufferConcat(Tail(chunks))

BufVal(bytes) == [t |-> "buffer", bytes |-> bytes]

\* `${code}` for a `number | null`
CodeString(code) == IF code = Null THEN "null" ELSE ToString(code[1])

ExitError(code) == Error("ffmpeg exited with code " \o CodeString(code))

\* the result built on exit code 0
ResultAlwaysBuffer(e) ==
    [stderr |-> e.stderr, output |-> BufVal(BufferConcat(e.stdoutChunks))]
Result(e) ==
    LET outputBuffer == BufferConcat(e.stdoutChunks)
    IN  [stderr |-> e.stderr,
         output |-> IF Len(outputBuffer) > 0 THEN BufVal(outputBuffer) ELSE Undefined]

\* process "close"
OnCloseIgnoreFailure(e, code) ==
    IF code = Some(0)
    THEN Ran([e EXCEPT !.promise = Resolve(@, Result(e))], <<EndEvent(Result(e))>>)
    ELSE Ran(e, <<ErrorEvent(ExitError(code), e.stderr)>>)
OnCloseAlwaysEnd(e, code) ==
    IF code = Some(0)
    THEN Ran([e EXCEPT !.promise = Resolve(@, Result(e))], <<EndEvent(Result(e))>>)
    ELSE Ran([e EXCEPT !.promise = Reject(@, ExitError(code))],
             <<EndEvent(Result(e)), ErrorEvent(ExitError(code), e.stderr)>>)
OnClose(e, code) ==
    IF code = Some(0)
    THEN Ran([e EXCEPT !.promise = Resolve(@, Result(e))], <<EndEvent(Result(e))>>)
    ELSE Ran([e EXCEPT !.promise = Reject(@, ExitError(code))],
             <<ErrorEvent(ExitError(code), e.stderr)>>)

\* process "error"
OnError(e, err) ==
    Ran([e EXCEPT !.promise = Reject(@, err)], <<ErrorEvent(err, e.stderr)>>)

(***************************************************************************)
(* FfmpegX.probe                                                           *)
(***************************************************************************)
\* JSON.parse on a text over the characters of the probe chunks: braces,
\* quotes, \n and characters beyond ASCII.  Over these the JSON texts are,
\* between optional whitespace, an object without members and a string
\* without a quote or a control character inside.
JSONObject(members) == [t |-> "object", members |-> members]
SyntaxError(message) == [name |-> "SyntaxError", message |-> message]
JSONParse(text) ==
    LET body == Trim(text)
        inner == SubSeq(body, 2, Len(body) - 1)
    IN  IF body = <<>> THEN Threw(SyntaxError("Unexpected end of JSON input"))
        ELSE IF /\ Len(body) >= 2 /\ body[1] = "{" /\ body[Len(body)] = "}"
                /\ \A i \in 1..Len(inner) : inner[i] \in Whitespace
        THEN Returned(JSONObject(<<>>))
        ELSE IF /\ Len(body) >= 2 /\ body[1] = "\"" /\ body[Len(body)] = "\""
                /\ \A i \in 1..Len(inner) : inner[i] \notin (Whitespace \cup {"\""})
        THEN Returned(StrVal(inner))
        ELSE Threw(SyntaxError("Unexpected token"))

\* `${e}` of an error: its name, a colon and its message
ErrorString(e) == e.name \o ": " \o e.message

\* the message of an error built from a template with a text at its end, as
\* the pieces of the message in order: the head and then the characters of
\* the text
MessageWith(head, text) == <<head>> \o text

\* new Error(`ffprobe exited with code ${code}\n${stderr}`)
ProbeExitError(code, stderr) ==
    Error(MessageWith("ffprobe exited with code " \o CodeString(code) \o LF, stderr))
\* new Error(`Failed to parse ffprobe JSON output: ${e}\n${stdout}`)
ProbeParseError(e, stdout) ==
    Error(MessageWith("Failed to parse ffprobe JSON output: " \o ErrorString(e) \o LF,
                      stdout))
ProbeSpawnError == Error("spawn ffprobe ENOENT")

\* the closure of a probe call; before the call there is no promise
NoProbe ==
    [child |-> [state |-> "none", ran |-> FALSE, code |-> Null],
     delivered |-> [out |-> <<>>, err |-> <<>>],
     stdout |-> <<>>, stderr |-> <<>>, promise |-> NoPromise]
NewProbe(spawned) ==
    [child |-> [state |-> IF spawned THEN "running" ELSE "spawnFailed",
                ran |-> spawned, code |-> Null],
     delivered |-> [out |-> <<>>, err |-> <<>>],
     stdout |-> <<>>, stderr |-> <<>>, promise |-> Pending]

\* child.stdout "data" and child.stderr "data"
OnProbeStdoutData(p, chunk) == [p EXCEPT !.stdout = @ \o toString(chunk)]
OnProbeStderrData(p, chunk) == [p EXCEPT !.stderr = @ \o toString(chunk)]

\* child "close"
OnProbeCloseAnyCode(p, code) ==
    LET parsed == JSONParse(p.stdout)
    IN  IF parsed.ok
        THEN [p EXCEPT !.promise = Resolve(@, parsed.value)]
        ELSE [p EXCEPT !.promise = Reject(@, ProbeParseError(parsed.error, p.stdout))]
OnProbeClose(p, code) ==
    IF code = Some(0)
    THEN LET parsed == JSONParse(p.stdout)
         IN  IF parsed.ok
             THEN [p EXCEPT !.promise = Resolve(@, parsed.value)]
             ELSE [p EXCEPT !.promise =
                                Reject(@, ProbeParseError(parsed.error, p.stdout))]
    ELSE [p EXCEPT !.promise = Reject(@, ProbeExitError(code, p.stderr))]

\* child "error": reject
OnProbeError(p, err) == [p EXCEPT !.promise = Reject(@, err)]

(***************************************************************************)
(* VideoFrameExtractor: numbers                                            *)
(***************************************************************************)
\* The numbers of the extractor are exact fractions or NaN.  No rate read
\* here has a non-zero numerator over a zero denominator, so Infinity does
\* not occur.  For the frame counts and rates sampled here the doubles of the
\* code hold the same index values as the exact fractions: the first total
\* for which a double falls just below an integer index is 12.
IsNaN(x) == x.t = "NaN"
Plus(a, b) == IF IsNaN(a) \/ IsNaN(b) THEN NaN ELSE Frac(a.n * b.d + b.n * a.d, a.d * b.d)
Minus(a, b) == IF IsNaN(a) \/ IsNaN(b) THEN NaN ELSE Frac(a.n * b.d - b.n * a.d, a.d * b.d)
Times(a, b) == IF IsNaN(a) \/ IsNaN(b) THEN NaN ELSE Frac(a.n * b.n, a.d * b.d)
\* a / b; 0 / 0 is NaN
Divide(a, b) ==
    IF IsNaN(a) \/ IsNaN(b) \/ b.n = 0 THEN NaN
    ELSE IF b.n < 0 THEN Frac(-(a.n * b.d), a.d * (-b.n))
    ELSE Frac(a.n * b.d, a.d * b.n)
\* a < b; false when one of them is NaN
Less(a, b) == ~IsNaN(a) /\ ~IsNaN(b) /\ a.n * b.d < b.n * a.d
MathMax(a, b) == IF IsNaN(a) \/ IsNaN(b) THEN NaN ELSE IF Less(a, b) THEN b ELSE a
MathMin(a, b) == IF IsNaN(a) \/ IsNaN(b) THEN NaN ELSE IF Less(b, a) THEN b ELSE a
MathFloor(a) == IF IsNaN(a) THEN NaN ELSE NumVal(a.n \div a.d)
\* the number of integers i >= 0 with i < a
CountBelow(a) == IF ~Less(NumVal(0), a) THEN 0 ELSE -((-a.n) \div a.d)

\* truthiness of a `number | undefined`: undefined, 0 and NaN are falsy
TruthyNumber(v) == v.t = "num" /\ v.n # 0
\* truthiness of a `string | undefined`: undefined and "" are falsy
TruthyText(v) == v.t = "str" /\ v.s # <<>>

\* x.toFixed(6) of a number that is not negative
toFixed(x) ==
    IF IsNaN(x) THEN "NaN"
    ELSE LET scaled == (2 * x.n * Pow10(6) + x.d) \div (2 * x.d)
             fp == scaled % Pow10(6)
             pad == IF fp < 10 THEN "00000" ELSE IF fp < 100 THEN "0000"
                    ELSE IF fp < 1000 THEN "000" ELSE IF fp < 10000 THEN "00"
                    ELSE IF fp < 100000 THEN "0" ELSE ""
         IN  ToString(scaled \div Pow10(6)) \o "." \o pad \o ToString(fp)

(***************************************************************************)
(* VideoFrameExtractor: initialize                                         *)
(***************************************************************************)
MsgNoVideoStream == "No video stream found in the file."
MsgUnknownFrames == "Could not determine the total number of frames or duration of the video."
MsgInvalidFrames == "Could not determine a valid total number of frames for the video."
MsgNotInitialized == "Extractor not initialized. Call the async initialize() method first."

\* the fields after the constructor
NewExtractor ==
    [videoPath |-> "input3.mp4", videoInfo |-> Null, videoStream |-> Null,
     totalFrames |-> NumVal(0), fps |-> NumVal(0), keyframeIntervalSeconds |-> NumVal(5)]

\* parseFrameRate(frameRateStr)
parseFrameRate(frameRateStr) ==
    IF Includes(frameRateStr, "/")
    THEN LET parts == Split(frameRateStr, "/")
         IN  Divide(parseInt(parts[1]), parseInt(parts[2]))
    ELSE parseFloat(frameRateStr)

\* streams.find((s) => s.codec_type === "video") ?? null
FindVideoStream(streams) ==
    LET videos == SelectSeq(streams, LAMBDA s : s.codec_type = "video")
    IN  IF videos = <<>> THEN Null ELSE Some(videos[1])

\* the fields and the outcome of initialize once the probe has resolved with
\* videoInfo; each assignment made before a throw stays
initializeCounted(x, stream) ==
    [x EXCEPT !.totalFrames = parseInt(stream.nb_frames.s)]
initializeTimed(x, info) ==
    [x EXCEPT !.totalFrames = MathFloor(Times(parseFloat(info.format.duration.s), x.fps))]
initializeInterval(x, stream) ==
    IF TruthyText(stream.r_frame_rate)
    THEN [x EXCEPT !.keyframeIntervalSeconds =
              MathMax(NumVal(2), Divide(NumVal(250), parseFrameRate(stream.r_frame_rate.s)))]
    ELSE x
Initialized(x, outcome) == [extractor |-> x, outcome |-> outcome]
initializeFrames(x, info, stream) ==
    LET counted == TruthyText(stream.nb_frames)
                   /\ Less(NumVal(0), parseInt(stream.nb_frames.s))
    IN  IF ~counted /\ ~TruthyText(info.format.duration)
        THEN Initialized(x, Threw(Error(MsgUnknownFrames)))
        ELSE LET y == IF counted THEN initializeCounted(x, stream)
                      ELSE initializeTimed(x, info)
             IN  IF IsNaN(y.totalFrames) \/ ~Less(NumVal(0), y.totalFrames)
                 THEN Initialized(y, Threw(Error(MsgInvalidFrames)))
                 ELSE Initialized(initializeInterval(y, stream), Returned(Undefined))
initialize(x, info) ==
    LET found == FindVideoStream(info.streams)
        y == [x EXCEPT !.videoInfo = Some(info), !.videoStream = found]
    IN  IF found = Null THEN Initialized(y, Threw(Error(MsgNoVideoStream)))
        ELSE initializeFrames(
                 [y EXCEPT !.fps = parseFrameRate(found[1].avg_frame_rate.s)],
                 info, found[1])

(***************************************************************************)
(* VideoFrameExtractor: what the probe reports                             *)
(***************************************************************************)
Stream(kind, nb_frames, avg_frame_rate, r_frame_rate) ==
    [codec_type |-> kind, nb_frames |-> nb_frames,
     avg_frame_rate |-> avg_frame_rate, r_frame_rate |-> r_frame_rate]
ProbeData(streams, duration) == [streams |-> streams, format |-> [duration |-> duration]]

RateTwo == StrVal(<<"2", "/", "1">>)
RateTwentyFive == StrVal(<<"2", "5", "/", "1">>)
RateZero == StrVal(<<"0", "/", "0">>)
AudioStream == Stream("audio", Undefined, RateZero, RateZero)

\* a video of 6 counted frames after an audio stream
CountedVideo ==
    ProbeData(<<AudioStream, Stream("video", StrVal(<<"6">>), RateTwo, RateTwentyFive)>>,
              StrVal(<<"3", ".", "0">>))
\* a video without a frame count: 2.5 s at 2 frames per second
TimedVideo ==
    ProbeData(<<Stream("video", Undefined, RateTwo, Undefined)>>, StrVal(<<"2", ".", "5">>))
AudioOnly == ProbeData(<<AudioStream>>, StrVal(<<"3", ".", "0">>))
\* neither a positive frame count nor a duration
NoDuration == ProbeData(<<Stream("video", StrVal(<<"0">>), RateTwo, RateTwo)>>, Undefined)
\* a duration that is not a number
BadDuration ==
    ProbeData(<<Stream("video", Undefined, RateTwo, RateTwo)>>, StrVal(<<"N", "/", "A">>))
\* a duration shorter than one frame
ShortVideo ==
    ProbeData(<<Stream("video", Undefined, RateTwo, RateTwo)>>, StrVal(<<"0", ".", "2">>))
\* a video stream whose average rate is 0/0
NoRate ==
    ProbeData(<<Stream("video", Undefined, RateZero, RateTwo)>>, StrVal(<<"3", ".", "0">>))

ProbeOutputs ==
    {CountedVideo, TimedVideo, AudioOnly, NoDuration, BadDuration, ShortVideo, NoRate}
\* the failure of a probe (its subprocess failed or its output did not parse)
ProbeError == ProbeExitError(Some(1), <<>>)

(***************************************************************************)
(* VideoFrameExtractor: extract                                            *)
(***************************************************************************)
\* validateInitialized throws
NotInitialized(x) ==
    x.videoInfo = Null \/ x.videoStream = Null \/ x.totalFrames = NumVal(0)

Options(totalFrames, fps) == [totalFrames |-> totalFrames, fps |-> fps]

\* [...new Set(frameIndices)]: the first occurrence of each value, in order
Unique(seq) ==
    LET first == SelectSeq(Indices(seq), LAMBDA i : \A j \in 1..(i - 1) : seq[j] # seq[i])
    IN  [k \in 1..Len(first) |-> seq[first[k]]]

\* the loop of the totalFrames branch
indicesByCountNotCentred(total, totalFrames) ==
    LET framesToExtract == MathMin(totalFrames, total)
        interval == Divide(total, framesToExtract)
    IN  [k \in 1..CountBelow(framesToExtract) |->
            MathFloor(Plus(Times(NumVal(k - 1), interval), interval))]
indicesByCount(total, totalFrames) ==
    LET framesToExtract == MathMin(totalFrames, total)
        interval == Divide(total, framesToExtract)
    IN  [k \in 1..CountBelow(framesToExtract) |->
            MathFloor(Plus(Times(NumVal(k - 1), interval), Divide(interval, NumVal(2))))]

\* the loop of the fps branch, for a target rate above 0
indicesByRateRounded(total, sourceFps, fps) ==
    LET interval == MathFloor(Plus(Divide(sourceFps, fps), Frac(1, 2)))
    IN  [k \in 1..CountBelow(Divide(total, interval)) |->
            MathFloor(Times(NumVal(k - 1), interval))]
indicesByRate(total, sourceFps, fps) ==
    LET interval == Divide(sourceFps, fps)
    IN  [k \in 1..CountBelow(Divide(total, interval)) |->
            MathFloor(Times(NumVal(k - 1), interval))]

calculateFrameIndices(x, options) ==
    Unique(IF TruthyNumber(options.totalFrames)
           THEN indicesByCount(x.totalFrames, options.totalFrames)
           ELSE IF TruthyNumber(options.fps)
           THEN indicesByRate(x.totalFrames, x.fps, options.fps)
           ELSE <<>>)

\* coarseSeekTime and preciseSeekOffset of one frame
SeekPlanUnclamped(targetTimestamp, keyframeIntervalSeconds) ==
    LET coarseSeekTime == Minus(targetTimestamp, keyframeIntervalSeconds)
    IN  [coarseSeekTime |-> coarseSeekTime,
         preciseSeekOffset |-> Minus(targetTimestamp, coarseSeekTime)]
SeekPlan(targetTimestamp, keyframeIntervalSeconds) ==
    LET coarseSeekTime ==
            MathMax(NumVal(0), Minus(targetTimestamp, keyframeIntervalSeconds))
    IN  [coarseSeekTime |-> coarseSeekTime,
         preciseSeekOffset |-> Minus(targetTimestamp, coarseSeekTime)]

\* the operator calls of the callback passed to executeFfmpeg for one frame
FrameScript(x, frameIndex) ==
    LET plan == SeekPlan(Divide(frameIndex, x.fps), x.keyframeIntervalSeconds)
    IN  <<InputOpt("-ss", StrVal(toFixed(plan.coarseSeekTime))),
          InputOp(x.videoPath),
          OutputOpt("-ss", StrVal(toFixed(plan.preciseSeekOffset))),
          OutputOpt("-vframes", NumVal(1)),
          OutputOpt("-q:v", NumVal(2)),
          outputFormat("image2pipe")>>

\* the arguments executeFfmpeg renders for one frame
FrameArgs(x, frameIndex) == buildArgs(ApplyOps(NewCommand, FrameScript(x, frameIndex)))

\* how one executeFfmpeg call can settle: with the image of the frame, with
\* no output, or with a failure; a render that throws spawns nothing
FrameOutcomes(frameArgs, frameIndex) ==
    IF ~frameArgs.ok THEN {Rejected(frameArgs.error)}
    ELSE {Fulfilled([stderr |-> <<>>, output |-> BufVal(<<frameIndex.n>>)]),
          Fulfilled([stderr |-> <<>>, output |-> Undefined]),
          Rejected(ExitError(Some(1)))}

\* .then(...).catch(...): the buffer of the frame, or null
FrameSlotRethrown(outcome) ==
    IF outcome.state = "fulfilled" /\ outcome.value.output # Undefined
          /\ Len(outcome.value.output.bytes) > 0
    THEN Fulfilled(Some(outcome.value.output))
    ELSE IF outcome.state = "fulfilled" THEN Fulfilled(Null)
    ELSE outcome
FrameSlot(outcome) ==
    IF outcome.state = "fulfilled" /\ outcome.value.output # Undefined
          /\ Len(outcome.value.output.bytes) > 0
    THEN Fulfilled(Some(outcome.value.output))
    ELSE Fulfilled(Null)

\* frameBuffers.filter((buffer) => buffer !== null)
NonNull(slots) ==
    LET kept == SelectSeq(slots, LAMBDA p : p.value # Null)
    IN  [k \in 1..Len(kept) |-> kept[k].value[1]]

\* Promise.all over the frame promises
PromiseAll(slots) ==
    IF \E i \in 1..Len(slots) : slots[i].state = "rejected"
    THEN Rejected((CHOOSE i \in 1..Len(slots) : slots[i].state = "rejected").reason)
    ELSE IF \A i \in 1..Len(slots) : slots[i].state = "fulfilled"
    THEN Fulfilled(NonNull(slots))
    ELSE Pending

\* an extract call: its options, whether an initialize call had completed
\* successfully when it was made, the frame indices, the seek times and the
\* rendered arguments of each frame, one promise per frame, the frames and
\* the outcomes of their executeFfmpeg calls in the order in which they
\* settled, and the promise of the call
NoExtraction ==
    [options |-> Options(Undefined, Undefined), ready |-> FALSE, indices |-> <<>>,
     plans |-> <<>>, args |-> <<>>, slots |-> <<>>, settled |-> <<>>,
     promise |-> NoPromise]

\* extract(options) up to `await Promise.all(extractionPromises)`
extract(x, ready, options) ==
    IF NotInitialized(x)
    THEN [NoExtraction EXCEPT !.options = options, !.ready = ready,
                              !.promise = Rejected(Error(MsgNotInitialized))]
    ELSE LET frameIndices == calculateFrameIndices(x, options)
         IN  [options |-> options, ready |-> ready, indices |-> frameIndices,
              plans |-> [i \in 1..Len(frameIndices) |->
                            SeekPlan(Divide(frameIndices[i], x.fps),
                                     x.keyframeIntervalSeconds)],
              args |-> [i \in 1..Len(frameIndices) |-> FrameArgs(x, frameIndices[i])],
              slots |-> [i \in 1..Len(frameIndices) |-> Pending],
              settled |-> <<>>, promise |-> Pending]

(***************************************************************************)
(* State after `new FfmpegX()` and `new FfmpegCommand()`                   *)
(***************************************************************************)
InitRunner ==
    /\ globalArgs = <<>> /\ inputArgs = <<>> /\ outputArgs = <<>>
    /\ inputFile = Null /\ outputFile = Null
    /\ calls = <<>>
    /\ rendered = NotRendered
    /\ pc = "callback"
    /\ fn = "running"
    /\ outer = Pending
    /\ listeners = 0
    /\ registered = 0
    /\ process = Null
    /\ emitted = <<>>
    /\ exec = NoExec
    /\ child = [state |-> "none", ran |-> FALSE, signals |-> 0, code |-> Null]
    /\ delivered = [out |-> <<>>, err |-> <<>>]
    /\ killCalls = 0
    /\ runs = <<>>
    /\ probing = NoProbe

Init ==
    /\ InitRunner
    /\ extractor = NewExtractor
    /\ probes = 0
    /\ initCalls = [succeeded |-> FALSE, last |-> Null]
    /\ extraction = NoExtraction

(***************************************************************************)
(* The command builder used on its own                                     *)
(***************************************************************************)
\* one call of an operator
CallOperator ==
    /\ Len(calls) < MaxOps
    /\ \E c \in OperatorCalls :
        /\ SetCmd(ApplyOp(Cmd, c))
        /\ calls' = Append(calls, c)
    /\ rendered' = NotRendered
    /\ UNCHANGED runVars
    /\ UNCHANGED samplerVars

\* one read of `finalArgs`
Render ==
    /\ rendered = NotRendered
    /\ rendered' = buildArgs(Cmd)
    /\ UNCHANGED <<cmdVars, calls, runVars>>
    /\ UNCHANGED samplerVars

NextCmd == CallOperator \/ Render

SpecCmd == Init /\ [][NextCmd]_vars

(***************************************************************************)
(* executeFfmpeg                                                           *)
(***************************************************************************)
\* what the callbacks of the demos do: demo.ts (a frame to a pipe), part_000
\* (only a global option), and variants without a format and with an empty
\* output path
CallbackScripts ==
    {<<InputOpt("-ss", StrVal("00:00:00")), InputOp("in.mp4"), frames(NumVal(1)),
       OutputOpt("-q:v", NumVal(2)), outputFormat("image2pipe")>>,
     <<GlobalOpt("-version", Undefined)>>,
     <<InputOp("in.mp4"), frames(NumVal(1))>>,
     <<InputOp("in.mp4"), OutputOp("")>>}

\* `finally { ffmpeg.removeAllListeners() }`, then the async function settles
Finally(outcome) ==
    /\ listeners' = 0
    /\ outer' = outcome
    /\ pc' = "settled"

\* ffmpeg.on(...) by the callback or by code it started
RegisterListener ==
    /\ pc \in {"callback", "render", "awaitExecute"}
    /\ registered < MaxListeners
    /\ listeners' = listeners + 1
    /\ registered' = registered + 1
    /\ UNCHANGED <<cmdVars, calls, rendered, pc, fn, outer, process, emitted, exec,
                   child, delivered, killCalls>>
    /\ UNCHANGED <<runs, probing, samplerVars>>

\* `await fn(cmd, ffmpeg)` returns
CallbackReturns ==
    /\ pc = "callback"
    /\ \E script \in CallbackScripts :
        /\ SetCmd(ApplyOps(Cmd, script))
        /\ calls' = calls \o script
    /\ fn' = "returned"
    /\ pc' = "render"
    /\ UNCHANGED <<rendered, outer, listeners, registered, process, emitted, exec,
                   child, delivered, killCalls>>
    /\ UNCHANGED <<runs, probing, samplerVars>>

\* `await fn(cmd, ffmpeg)` throws or rejects, after some operator calls
CallbackThrowsIgnored ==
    /\ pc = "callback"
    /\ \E script \in CallbackScripts :
        /\ SetCmd(ApplyOps(Cmd, script))
        /\ calls' = calls \o script
    /\ fn' = "threw"
    /\ pc' = "render"
    /\ UNCHANGED <<rendered, outer, listeners, registered, process, emitted, exec,
                   child, delivered, killCalls>>
    /\ UNCHANGED <<runs, probing, samplerVars>>
CallbackThrows ==
    /\ pc = "callback"
    /\ \E script \in CallbackScripts :
        /\ SetCmd(ApplyOps(Cmd, script))
        /\ calls' = calls \o script
    /\ fn' = "threw"
    /\ Finally(Rejected(CallbackError))
    /\ UNCHANGED <<rendered, registered, process, emitted, exec, child, delivered,
                   killCalls>>
    /\ UNCHANGED <<runs, probing, samplerVars>>

\* `ffmpeg.execute(cmd.finalArgs)`: the getter, then the executor of the
\* promise up to the registration of the handlers; the spawn succeeds or fails
RenderAndExecute ==
    /\ pc = "render"
    /\ rendered' = buildArgs(Cmd)
    /\ IF ~rendered'.ok
       THEN /\ Finally(Rejected(rendered'.error))
            /\ UNCHANGED <<process, emitted, exec, child>>
       ELSE /\ \E spawned \in BOOLEAN :
                child' = [state |-> IF spawned THEN "running" ELSE "spawnFailed",
                          ran |-> spawned, signals |-> 0, code |-> Null]
            /\ emitted' = Append(emitted, StartEvent(CommandLine(rendered'.value)))
            /\ process' = Some(1)
            /\ exec' = NewExec
            /\ pc' = "awaitExecute"
            /\ UNCHANGED <<outer, listeners>>
    /\ UNCHANGED <<cmdVars, calls, fn, registered, delivered, killCalls>>
    /\ UNCHANGED <<runs, probing, samplerVars>>

\* the effect of a handler on the closure and on the notifications
Apply(r) ==
    /\ exec' = r.exec
    /\ emitted' = emitted \o r.emits

StdoutData ==
    /\ child.state = "running"
    /\ Len(delivered.out) < MaxOutChunks
    /\ \E chunk \in OutChunks :
        /\ Apply(OnStdoutData(exec, chunk))
        /\ delivered' = [delivered EXCEPT !.out = Append(@, chunk)]
    /\ UNCHANGED <<cmdVars, calls, rendered, pc, fn, outer, listeners, registered,
                   process, child, killCalls>>
    /\ UNCHANGED <<runs, probing, samplerVars>>

StderrData ==
    /\ child.state = "running"
    /\ Len(delivered.err) < MaxErrChunks
    /\ \E chunk \in ErrChunks :
        /\ Apply(OnStderrData(exec, chunk))
        /\ delivered' = [delivered EXCEPT !.err = Append(@, chunk)]
    /\ UNCHANGED <<cmdVars, calls, rendered, pc, fn, outer, listeners, registered,
                   process, child, killCalls>>
    /\ UNCHANGED <<runs, probing, samplerVars>>

\* the codes the close event of the subprocess can carry
CloseCodes ==
    IF child.state = "running"
    THEN {Some(c) : c \in ExitCodes} \cup (IF child.signals > 0 THEN {Null} ELSE {})
    ELSE IF child.state = "errored" THEN {Some(SpawnFailedCode)}
    ELSE {}

\* the "close" event: after the exit of a subprocess that ran, or after the
\* "error" event of a failed spawn
Close ==
    /\ \E code \in CloseCodes :
        /\ Apply(OnClose(exec, code))
        /\ child' = [child EXCEPT !.state = "closed", !.code = code]
    /\ UNCHANGED <<cmdVars, calls, rendered, pc, fn, outer, listeners, registered,
                   process, delivered, killCalls>>
    /\ UNCHANGED <<runs, probing, samplerVars>>

\* the "error" event of a failed spawn
ProcessError ==
    /\ child.state = "spawnFailed"
    /\ Apply(OnError(exec, SpawnError))
    /\ child' = [child EXCEPT !.state = "errored"]
    /\ UNCHANGED <<cmdVars, calls, rendered, pc, fn, outer, listeners, registered,
                   process, delivered, killCalls>>
    /\ UNCHANGED <<runs, probing, samplerVars>>

\* kill(signal): `if (this.process) this.process.kill(signal)`; a signal
\* reaches a subprocess that is still running
KillSettles ==
    /\ killCalls < MaxKills
    /\ killCalls' = killCalls + 1
    /\ IF process # Null /\ child.state = "running"
       THEN /\ child' = [child EXCEPT !.signals = @ + 1]
            /\ Apply(OnClose(exec, Null))
       ELSE UNCHANGED <<child, emitted, exec>>
    /\ UNCHANGED <<cmdVars, calls, rendered, pc, fn, outer, listeners, registered,
                   process, delivered>>
    /\ UNCHANGED <<runs, probing, samplerVars>>
Kill ==
    /\ killCalls < MaxKills
    /\ killCalls' = killCalls + 1
    /\ IF process # Null /\ child.state = "running"
       THEN child' = [child EXCEPT !.signals = @ + 1]
       ELSE UNCHANGED child
    /\ UNCHANGED <<cmdVars, calls, rendered, pc, fn, outer, listeners, registered,
                   process, emitted, exec, delivered>>
    /\ UNCHANGED <<runs, probing, samplerVars>>

\* `return await ffmpeg.execute(...)` continues once the promise of execute
\* is settled: finally, then the outcome of execute is the outcome of the call
ExecuteSettlesKeepOnFailure ==
    /\ pc = "awaitExecute"
    /\ Settled(exec.promise)
    /\ listeners' = IF exec.promise.state = "fulfilled" THEN 0 ELSE listeners
    /\ outer' = exec.promise
    /\ pc' = "settled"
    /\ UNCHANGED <<cmdVars, calls, rendered, fn, registered, process, emitted, exec,
                   child, delivered, killCalls>>
    /\ UNCHANGED <<runs, probing, samplerVars>>
ExecuteSettles ==
    /\ pc = "awaitExecute"
    /\ Settled(exec.promise)
    /\ Finally(exec.promise)
    /\ UNCHANGED <<cmdVars, calls, rendered, fn, registered, process, emitted, exec,
                   child, delivered, killCalls>>
    /\ UNCHANGED <<runs, probing, samplerVars>>

Next ==
    \/ RegisterListener
    \/ CallbackReturns
    \/ CallbackThrows
    \/ RenderAndExecute
    \/ StdoutData
    \/ StderrData
    \/ Close
    \/ ProcessError
    \/ Kill
    \/ ExecuteSettles

Spec == Init /\ [][Next]_vars

(***************************************************************************)
(* VideoFrameExtractor                                                     *)
(***************************************************************************)
\* the options of the extract calls: two frames by count, one frame per
\* second by rate, and neither
ExtractOptions ==
    {Options(NumVal(2), Undefined), Options(Undefined, NumVal(1)),
     Options(Undefined, Undefined)}

\* initialize() up to `await FfmpegX.probe(this.videoPath)`
InitializeCall ==
    /\ probes < MaxInits
    /\ probes' = probes + 1
    /\ UNCHANGED <<extractor, initCalls, extraction>>
    /\ UNCHANGED <<cmdVars, calls, rendered, runVars>>

\* the probe resolves: the rest of initialize runs
ProbeResolves ==
    /\ probes > 0
    /\ \E info \in ProbeOutputs :
        LET done == initialize(extractor, info)
        IN  /\ extractor' = done.extractor
            /\ initCalls' = [succeeded |-> initCalls.succeeded \/ done.outcome.ok,
                             last |-> Some(done.outcome)]
    /\ probes' = probes - 1
    /\ UNCHANGED extraction
    /\ UNCHANGED <<cmdVars, calls, rendered, runVars>>

\* the probe rejects: initialize rejects with the failure of the probe
ProbeRejects ==
    /\ probes > 0
    /\ initCalls' = [initCalls EXCEPT !.last = Some(Threw(ProbeError))]
    /\ probes' = probes - 1
    /\ UNCHANGED <<extractor, extraction>>
    /\ UNCHANGED <<cmdVars, calls, rendered, runVars>>

\* extract(options) up to `await Promise.all(extractionPromises)`
Extract ==
    /\ extraction.promise # Pending
    /\ \E options \in ExtractOptions :
        extraction' = extract(extractor, initCalls.succeeded, options)
    /\ UNCHANGED <<extractor, probes, initCalls>>
    /\ UNCHANGED <<cmdVars, calls, rendered, runVars>>

\* the executeFfmpeg call of one frame settles
FrameSettles ==
    /\ extraction.promise = Pending
    /\ \E i \in 1..Len(extraction.slots) :
        /\ extraction.slots[i] = Pending
        /\ \E outcome \in FrameOutcomes(extraction.args[i], extraction.indices[i]) :
            extraction' = [extraction EXCEPT
                               !.slots[i] = FrameSlot(outcome),
                               !.settled = Append(@, [frame |-> i, outcome |-> outcome])]
    /\ UNCHANGED <<extractor, probes, initCalls>>
    /\ UNCHANGED <<cmdVars, calls, rendered, runVars>>

\* Promise.all settles, then the filter
BatchSettles ==
    /\ extraction.promise = Pending
    /\ PromiseAll(extraction.slots) # Pending
    /\ extraction' = [extraction EXCEPT !.promise = PromiseAll(extraction.slots)]
    /\ UNCHANGED <<extractor, probes, initCalls>>
    /\ UNCHANGED <<cmdVars, calls, rendered, runVars>>

NextSampler ==
    \/ InitializeCall
    \/ ProbeResolves
    \/ ProbeRejects
    \/ Extract
    \/ FrameSettles
    \/ BatchSettles

SpecSampler == Init /\ [][NextSampler]_vars

(***************************************************************************)
(* Sampling: extract on an initialized extractor                           *)
(***************************************************************************)
\* the decimal digits of a frame count below 100
CountText(n) ==
    IF n < 10 THEN <<DigitChars[n + 1]>>
    ELSE <<DigitChars[(n \div 10) + 1], DigitChars[(n % 10) + 1]>>

\* the average rates 0.5, 2 and 2.5 frames per second, and the real rates
\* that give the keyframe intervals 5 s (no rate reported) and 10 s
SourceRates == {StrVal(<<"1", "/", "2">>), RateTwo, StrVal(<<"5", "/", "2">>)}
RealRates == {Undefined, RateTwentyFive}

\* the extractors a successful initialize leaves behind
ReadyExtractors ==
    {initialize(NewExtractor,
                ProbeData(<<Stream("video", StrVal(CountText(total)), rate, real)>>,
                          Undefined)).extractor :
        total \in 1..MaxTotalFrames, rate \in SourceRates, real \in RealRates}

\* requests by count from 0 to one above the largest total, and by rate
SamplingOptions ==
    {Options(NumVal(n), Undefined) : n \in 0..(MaxTotalFrames + 1)}
    \cup {Options(Undefined, NumVal(r)) : r \in 1..3}

InitSampling ==
    /\ InitRunner
    /\ extractor \in ReadyExtractors
    /\ probes = 0
    /\ initCalls = [succeeded |-> TRUE, last |-> Some(Returned(Undefined))]
    /\ extraction = NoExtraction

\* one extract call
Sample ==
    /\ extraction.promise = NoPromise
    /\ \E options \in SamplingOptions :
        extraction' = extract(extractor, initCalls.succeeded, options)
    /\ UNCHANGED <<extractor, probes, initCalls>>
    /\ UNCHANGED <<cmdVars, calls, rendered, runVars>>

NextSampling == Sample

SpecSampling == InitSampling /\ [][NextSampling]_vars

(***************************************************************************)
(* FfmpegX used directly: execute called again on the same runner          *)
(***************************************************************************)
\* the argument vector, the stderr chunk and the stdout chunk of these calls
RunnerArgs == <<"-i", "in.mp4", "-f", "image2pipe", "pipe:1">>
RunnerErrChunk == CompactLine \o <<LF>>
RunnerOutChunk == <<1>>

\* one execute call: its subprocess, its closure, the chunks delivered
NewRun(spawned) ==
    [child |-> [state |-> IF spawned THEN "running" ELSE "spawnFailed",
                ran |-> spawned, signals |-> 0, code |-> Null],
     exec |-> NewExec,
     delivered |-> [out |-> <<>>, err |-> <<>>]]

\* the variables the direct calls leave alone
besideRuns ==
    <<cmdVars, calls, rendered, pc, fn, outer, listeners, registered, exec, child,
      delivered, samplerVars, probing>>

\* the data events delivered so far by the subprocesses of all calls
RECURSIVE ChunkCount(_)
ChunkCount(rs) ==
    IF rs = <<>> THEN 0
    ELSE Len(Head(rs).delivered.out) + Len(Head(rs).delivered.err) + ChunkCount(Tail(rs))

\* execute(finalArgs) up to the registration of the handlers; the field
\* `process` is overwritten with the new subprocess
ExecuteCall ==
    /\ Len(runs) < MaxExecutes
    /\ \E spawned \in BOOLEAN : runs' = Append(runs, NewRun(spawned))
    /\ emitted' = Append(emitted, StartEvent(CommandLine(RunnerArgs)))
    /\ process' = Some(Len(runs) + 1)
    /\ UNCHANGED <<besideRuns, killCalls>>

\* the effect of a handler of call i on its closure and on the notifications
ApplyRun(i, r, c, d) ==
    /\ runs' = [runs EXCEPT ![i] = [child |-> c, exec |-> r.exec, delivered |-> d]]
    /\ emitted' = emitted \o r.emits

RunStdoutData ==
    /\ ChunkCount(runs) < MaxRunChunks
    /\ \E i \in 1..Len(runs) :
        /\ runs[i].child.state = "running"
        /\ ApplyRun(i, OnStdoutData(runs[i].exec, RunnerOutChunk), runs[i].child,
                    [runs[i].delivered EXCEPT !.out = Append(@, RunnerOutChunk)])
    /\ UNCHANGED <<besideRuns, process, killCalls>>

RunStderrData ==
    /\ ChunkCount(runs) < MaxRunChunks
    /\ \E i \in 1..Len(runs) :
        /\ runs[i].child.state = "running"
        /\ ApplyRun(i, OnStderrData(runs[i].exec, RunnerErrChunk), runs[i].child,
                    [runs[i].delivered EXCEPT !.err = Append(@, RunnerErrChunk)])
    /\ UNCHANGED <<besideRuns, process, killCalls>>

\* the codes the close event of a subprocess can carry
RunCloseCodes(c) ==
    IF c.state = "running"
    THEN {Some(code) : code \in ExitCodes} \cup (IF c.signals > 0 THEN {Null} ELSE {})
    ELSE IF c.state = "errored" THEN {Some(SpawnFailedCode)}
    ELSE {}

RunClose ==
    /\ \E i \in 1..Len(runs) :
        \E code \in RunCloseCodes(runs[i].child) :
            ApplyRun(i, OnClose(runs[i].exec, code),
                     [runs[i].child EXCEPT !.state = "closed", !.code = code],
                     runs[i].delivered)
    /\ UNCHANGED <<besideRuns, process, killCalls>>

RunError ==
    /\ \E i \in 1..Len(runs) :
        /\ runs[i].child.state = "spawnFailed"
        /\ ApplyRun(i, OnError(runs[i].exec, SpawnError),
                    [runs[i].child EXCEPT !.state = "errored"], runs[i].delivered)
    /\ UNCHANGED <<besideRuns, process, killCalls>>

\* kill(signal): the signal goes to the subprocess `process` refers to
KillRun ==
    /\ killCalls < MaxKills
    /\ killCalls' = killCalls + 1
    /\ IF process # Null /\ runs[process[1]].child.state = "running"
       THEN runs' = [runs EXCEPT ![process[1]].child.signals = @ + 1]
       ELSE UNCHANGED runs
    /\ UNCHANGED <<besideRuns, process, emitted>>

NextRunner ==
    \/ ExecuteCall
    \/ RunStdoutData
    \/ RunStderrData
    \/ RunClose
    \/ RunError
    \/ KillRun

SpecRunner == Init /\ [][NextRunner]_vars

(***************************************************************************)
(* The stderr stream cut into chunks at any position                       *)
(***************************************************************************)
\* the chunks of one or two characters over a letter and the two characters
\* of the line ends
LineChars == {"a", CR, LF}
LineChunks == {<<c>> : c \in LineChars} \cup {<<c, d>> : c \in LineChars, d \in LineChars}

StderrLineData ==
    /\ child.state = "running"
    /\ Len(delivered.err) < MaxLineChunks
    /\ \E chunk \in LineChunks :
        /\ Apply(OnStderrData(exec, chunk))
        /\ delivered' = [delivered EXCEPT !.err = Append(@, chunk)]
    /\ UNCHANGED <<cmdVars, calls, rendered, pc, fn, outer, listeners, registered,
                   process, child, killCalls>>
    /\ UNCHANGED <<runs, probing, samplerVars>>

NextLines ==
    \/ CallbackReturns
    \/ RenderAndExecute
    \/ StderrLineData
    \/ Close

SpecLines == Init /\ [][NextLines]_vars

(***************************************************************************)
(* FfmpegX.probe: one call and its subprocess                              *)
(***************************************************************************)
\* stdout chunks: an object in two pieces, a string cut inside the two bytes
\* of its character; stderr chunks: a line and a piece of one
ProbeOutChunks == {<<"{">>, <<"}", LF>>, <<"\"", "C3">>, <<"A9", "\"">>}
ProbeErrChunks == {<<"e", LF>>, <<"C3", "A9">>}

\* the variables a probe call leaves alone
besideProbe ==
    <<cmdVars, calls, rendered, pc, fn, outer, listeners, registered, process, emitted,
      exec, child, delivered, killCalls, runs, samplerVars>>

\* FfmpegX.probe(file): the subprocess is spawned, or the spawn fails
ProbeCall ==
    /\ probing.promise = NoPromise
    /\ \E spawned \in BOOLEAN : probing' = NewProbe(spawned)
    /\ UNCHANGED besideProbe

ProbeStdoutData ==
    /\ probing.child.state = "running"
    /\ Len(probing.delivered.out) < MaxProbeChunks
    /\ \E chunk \in ProbeOutChunks :
        probing' = [OnProbeStdoutData(probing, chunk)
                        EXCEPT !.delivered.out = Append(@, chunk)]
    /\ UNCHANGED besideProbe

ProbeStderrData ==
    /\ probing.child.state = "running"
    /\ Len(probing.delivered.err) < MaxProbeChunks
    /\ \E chunk \in ProbeErrChunks :
        probing' = [OnProbeStderrData(probing, chunk)
                        EXCEPT !.delivered.err = Append(@, chunk)]
    /\ UNCHANGED besideProbe

\* the exit codes of a subprocess that ran (null: ended by a signal), and the
\* code of the close event that follows the error event of a failed spawn
ProbeCloseCodes ==
    IF probing.child.state = "running" THEN {Some(c) : c \in ExitCodes} \cup {Null}
    ELSE IF probing.child.state = "errored" THEN {Some(SpawnFailedCode)}
    ELSE {}

ProbeClose ==
    /\ \E code \in ProbeCloseCodes :
        probing' = [OnProbeClose(probing, code)
                        EXCEPT !.child.state = "closed", !.child.code = code]
    /\ UNCHANGED besideProbe

\* the "error" event of a failed spawn
ProbeSpawnFails ==
    /\ probing.child.state = "spawnFailed"
    /\ probing' = [OnProbeError(probing, ProbeSpawnError) EXCEPT !.child.state = "errored"]
    /\ UNCHANGED besideProbe

NextProbe ==
    \/ ProbeCall
    \/ ProbeStdoutData
    \/ ProbeStderrData
    \/ ProbeClose
    \/ ProbeSpawnFails

SpecProbe == Init /\ [][NextProbe]_vars

(***************************************************************************)
(* Properties                                                              *)
(***************************************************************************)
\* the text execute has accumulated from the stderr chunks delivered so far:
\* each chunk decoded on its own, in arrival order
RECURSIVE ChunksText(_)
ChunksText(chunks) ==
    IF chunks = <<>> THEN <<>> ELSE toString(Head(chunks)) \o ChunksText(Tail(chunks))

\* the bytes of the stdout chunks delivered so far, in arrival order
RECURSIVE ChunksBytes(_)
ChunksBytes(chunks) ==
    IF chunks = <<>> THEN <<>> ELSE Head(chunks) \o ChunksBytes(Tail(chunks))

Emitted(ev) == \E i \in 1..Len(emitted) : emitted[i].ev = ev

\* a subprocess that ran has exited with a code other than 0
ExitedNonZero == child.state = "closed" /\ child.ran /\ child.code # Some(0)
ExitedZero == child.state = "closed" /\ child.ran /\ child.code = Some(0)

IsExecutionResult(v) == DOMAIN v = {"stderr", "output"}
IsFailure(e) == DOMAIN e = {"name", "message"} /\ e.name = "Error"

\* C1: every execute call produces exactly one outcome.  The promise of
\* execute, once settled, never changes (it is fulfilled with an
\* ExecutionResult or rejected with an Error, never one after the other), and
\* in every state in which the subprocess has delivered its error event or
\* its close event the promise is settled.
C1_ExactlyOneOutcome ==
    [][/\ Settled(exec.promise) => exec'.promise = exec.promise
       /\ child'.state \in {"errored", "closed"} => Settled(exec'.promise)
       /\ exec'.promise.state = "fulfilled" => IsExecutionResult(exec'.promise.value)
       /\ exec'.promise.state = "rejected" => IsFailure(exec'.promise.reason)]_vars

\* C1 witness: a failed spawn has delivered its error event and then its
\* close event, and the promise is rejected with the error of the spawn
C1_Witness ==
    /\ child.state = "closed" /\ ~child.ran
    /\ exec.promise = Rejected(SpawnError)

\* an error object holds a text when it has a property with that text
CarriesStderr(error, text) == "stderr" \in DOMAIN error /\ error.stderr = text

\* C2 as stated: when the subprocess exits with a non-zero code, the promise
\* is rejected with an error that carries the stderr text accumulated so far,
\* it is not fulfilled and no `end` notification is emitted.
C2_ErrorCarriesStderr ==
    ExitedNonZero =>
        /\ exec.promise.state = "rejected"
        /\ CarriesStderr(exec.promise.reason, ChunksText(delivered.err))
        /\ ~Emitted("end")

\* C2 amended: when the subprocess exits with a non-zero code, the promise is
\* rejected with an Error whose message names the code and which holds no
\* stderr text; the stderr text accumulated so far is the second argument of
\* the `error` notification emitted at that point; the promise is not
\* fulfilled and no `end` notification is emitted.
C2_StderrInNotification ==
    ExitedNonZero =>
        /\ exec.promise = Rejected(ExitError(child.code))
        /\ ~CarriesStderr(exec.promise.reason, ChunksText(delivered.err))
        /\ emitted[Len(emitted)] =
               ErrorEvent(ExitError(child.code), ChunksText(delivered.err))
        /\ ~Emitted("end")

\* C2 witness: exit code 1 after two stderr chunks
C2_Witness ==
    /\ ExitedNonZero /\ child.code = Some(1)
    /\ Len(delivered.err) = 2
    /\ exec.promise.state = "rejected"

\* C3: when the subprocess exits with code 0, the promise is fulfilled with a
\* result whose output is the concatenation of the stdout chunks in arrival
\* order when that is at least one byte and is absent otherwise, and whose
\* stderr is the concatenation of the text of the stderr chunks in arrival
\* order.
C3_ResultOnExitZero ==
    ExitedZero =>
        /\ exec.promise.state = "fulfilled"
        /\ exec.promise.value.stderr = ChunksText(delivered.err)
        /\ exec.promise.value.output =
               (IF delivered.out = <<>> THEN Undefined
                ELSE BufVal(ChunksBytes(delivered.out)))

\* C3 witness: exit code 0 after two different stdout chunks and a stderr chunk
C3_Witness ==
    /\ ExitedZero
    /\ Len(delivered.out) = 2 /\ delivered.out[1] # delivered.out[2]
    /\ delivered.err # <<>>
    /\ exec.promise.state = "fulfilled"

\* the callback failed, or reading finalArgs threw
CallbackFailed == fn = "threw"
RenderFailed == rendered # NotRendered /\ ~rendered.ok

\* C4: when the callback fails or the render throws, no subprocess is ever
\* spawned and no notification (in particular no `start`) is emitted, and the
\* call is rejected with that failure.
C4_NoSpawnOnFailure ==
    (CallbackFailed \/ RenderFailed) =>
        /\ child.state = "none" /\ process = Null /\ exec = NoExec
        /\ emitted = <<>>
        /\ pc = "settled"
        /\ outer = Rejected(IF CallbackFailed THEN CallbackError ELSE rendered.error)

\* C4 witness: the render threw for want of a format and the call is rejected
C4_Witness ==
    /\ pc = "settled"
    /\ rendered = Threw(Error(MsgNoFormat))
    /\ outer.state = "rejected"

\* C5: once the call of executeFfmpeg has settled, no listener is registered
\* on its runner.
C5_ListenersDetached == pc = "settled" => listeners = 0

\* C5 witness: a listener was registered, execute rejected after a non-zero
\* exit, and the call has settled
C5_Witness ==
    /\ pc = "settled" /\ registered > 0
    /\ ExitedNonZero
    /\ outer.state = "rejected"

\* what the operator calls made so far say, read off the calls themselves
HasCall(op) == \E i \in 1..Len(calls) : calls[i].op = op

\* the path of the last call of `input` or `output`, Null without such a call
LastFile(op) ==
    LET at == {i \in 1..Len(calls) : calls[i].op = op}
    IN  IF at = {} THEN Null
        ELSE Some(calls[CHOOSE i \in at : \A j \in at : j <= i].file)

\* the tokens of the calls of one add*Option operator, in call order
RECURSIVE CallTokens(_, _)
CallTokens(cs, op) ==
    IF cs = <<>> THEN <<>>
    ELSE (IF Head(cs).op # op THEN <<>>
          ELSE IF Head(cs).value = Undefined THEN <<Head(cs).key>>
          ELSE <<Head(cs).key, String(Head(cs).value)>>)
         \o CallTokens(Tail(cs), op)

\* a format-selection flag: the token -f followed by a value
FormatFlag(tokens) == \E i \in 1..(Len(tokens) - 1) : tokens[i] = "-f"

Rendered == rendered # NotRendered
ConfigurationErrors == {Error(MsgNoInput), Error(MsgNoFormat)}

\* C6: a render of a command on which `input` was never called throws the
\* ConfigurationError "Input file not specified", whatever else was set.
C6_NoInputFails ==
    (Rendered /\ ~HasCall("input")) => rendered = Threw(Error(MsgNoInput))

\* C6 witness: an output path and an option were set, no input, and the
\* render threw
C6_Witness ==
    /\ Rendered /\ ~HasCall("input")
    /\ HasCall("output") /\ HasCall("addOutputOption")
    /\ ~rendered.ok

\* C7 as stated: with an input set and no output path set, the render throws
\* a ConfigurationError when the output arguments hold no format flag, and
\* otherwise succeeds with `pipe:1` as the last token.
C7_FormatOrFail ==
    (Rendered /\ HasCall("input") /\ ~HasCall("output")) =>
        IF FormatFlag(CallTokens(calls, "addOutputOption"))
        THEN rendered.ok /\ rendered.value[Len(rendered.value)] = "pipe:1"
        ELSE ~rendered.ok /\ rendered.error \in ConfigurationErrors

\* C7 amended: the same, but the render succeeds with a format flag only when
\* the input path is not the empty string; an empty input path counts as not
\* set and the render throws "Input file not specified".
C7_FormatOrFailNonEmptyInput ==
    (Rendered /\ HasCall("input") /\ ~HasCall("output")) =>
        IF LastFile("input") = Some("")
        THEN rendered = Threw(Error(MsgNoInput))
        ELSE IF FormatFlag(CallTokens(calls, "addOutputOption"))
        THEN rendered.ok /\ rendered.value[Len(rendered.value)] = "pipe:1"
        ELSE rendered = Threw(Error(MsgNoFormat))

\* C7 witness: an input, a lone -f as the last output argument, no output
\* path, and the render threw for want of a format
C7_Witness ==
    /\ Rendered /\ LastFile("input") = Some("in.mp4") /\ ~HasCall("output")
    /\ \E i \in 1..Len(calls) : calls[i] = OutputOpt("-f", Undefined)
    /\ rendered = Threw(Error(MsgNoFormat))

\* the arguments a successful render is said to return, with `target` as the
\* last token
ExpectedArgs(target) ==
    CallTokens(calls, "addGlobalOption") \o CallTokens(calls, "addInputOption")
    \o <<"-i", LastFile("input")[1]>>
    \o CallTokens(calls, "addOutputOption") \o <<target>>

\* C8 as stated: a successful render returns the global tokens, the input
\* tokens, -i and the last input path set, the output tokens, then the last
\* output path set, or `pipe:1` when none was set.
C8_RenderOrder ==
    (Rendered /\ rendered.ok) =>
        /\ HasCall("input")
        /\ rendered.value =
               ExpectedArgs(IF LastFile("output") = Null THEN "pipe:1"
                            ELSE LastFile("output")[1])

\* C8 amended: the same, with `pipe:1` as the last token also when the last
\* output path set is the empty string.
C8_RenderOrderNonEmptyOutput ==
    (Rendered /\ rendered.ok) =>
        /\ HasCall("input")
        /\ rendered.value =
               ExpectedArgs(IF LastFile("output") \in {Null, Some("")} THEN "pipe:1"
                            ELSE LastFile("output")[1])

\* C8 witness: the example of the specification
C8_Witness ==
    /\ calls = <<InputOp("in.mp4"), frames(NumVal(1)), outputFormat("image2pipe")>>
    /\ rendered = Returned(<<"-i", "in.mp4", "-vframes", "1", "-f", "image2pipe", "pipe:1">>)

\* the text 00:00:04.80
PaddedLineTime == SubSeq(PaddedLine, 49, 59)

\* C9 as stated: the progress sample of the padded line of the specification
\* has frame = 120, fps = 25.0 and time = "00:00:04.80".
C9_PaddedLineSample ==
    \A i \in 1..Len(emitted) :
        (emitted[i].ev = "progress" /\ emitted[i].data.raw = PaddedLine) =>
            /\ emitted[i].data.frame = NumVal(120)
            /\ emitted[i].data.fps = NumVal(25)
            /\ emitted[i].data.time = StrVal(PaddedLineTime)

\* a token of the line, between spaces, is time= followed by a value
CarriesTime(line) ==
    LET tokens == Split(line, " ")
    IN  \E k \in 1..Len(tokens) :
            Len(tokens[k]) > Len(KeyTime) + 1
            /\ SubSeq(tokens[k], 1, Len(KeyTime) + 1) = KeyTime \o <<"=">>

\* C10: a `progress` notification directly follows the `stderr` notification
\* of the same line, and that line begins with frame= and carries a time
\* value, which the sample holds; the `stderr` notification of a line that
\* does not begin with frame=, or carries no time value, is not followed by a
\* `progress` notification.
C10_ProgressOnlyForProgressLines ==
    \A i \in 1..Len(emitted) :
        /\ emitted[i].ev = "progress" =>
            /\ i > 1
            /\ emitted[i - 1] = StderrEvent(emitted[i].data.raw)
            /\ StartsWith(emitted[i].data.raw, FramePrefix)
            /\ CarriesTime(emitted[i].data.raw)
            /\ emitted[i].data.time.t = "str" /\ emitted[i].data.time.s # <<>>
        /\ (emitted[i].ev = "stderr"
            /\ (~StartsWith(emitted[i].line, FramePrefix) \/ ~CarriesTime(emitted[i].line))) =>
                ~(i < Len(emitted) /\ emitted[i + 1].ev = "progress")

\* C10 witness: after `start`, a progress line has its `stderr` notification
\* and its sample, and a line without a time value has only its `stderr`
\* notification
C10_Witness ==
    /\ Len(emitted) = 4
    /\ emitted[2].ev = "stderr" /\ emitted[3].ev = "progress"
    /\ emitted[4] = StderrEvent(NoTimeLine)

\* C11 as stated: an extract call made when no initialize call has completed
\* successfully (none was made, one still awaits the probe, or every one made
\* has failed) fails with the not-initialized error and issues no subprocess
\* invocation.
C11_ExtractNeedsInitialize ==
    (extraction.promise # NoPromise /\ ~extraction.ready) =>
        /\ extraction.promise = Rejected(Error(MsgNotInitialized))
        /\ extraction.slots = <<>>

\* the extract call sampled by total count n on a video of T frames
SampledByCount ==
    extraction.promise # NoPromise /\ extraction.options.totalFrames # Undefined
IsFrameIndex(v, total) == v.t = "num" /\ v.d = 1 /\ 0 <= v.n /\ v.n < total
Distinct(seq) == \A i, j \in 1..Len(seq) : i # j => seq[i] # seq[j]

\* C12: sampling by total count n on a video of T >= 1 frames returns at most
\* min(n, T) frame indices, all distinct and all in [0, T); for n <= T they
\* are the values floor(i*T/n + T/(2n)) for i in 0..n-1 without repetition,
\* and for n >= T (a request above T is clamped to T) they are exactly T.
C12_SamplingByCount ==
    SampledByCount =>
        LET n == extraction.options.totalFrames.n
            T == extractor.totalFrames.n
            found == extraction.indices
        IN  /\ T >= 1
            /\ Len(found) <= (IF n < T THEN n ELSE T)
            /\ Distinct(found)
            /\ \A i \in 1..Len(found) : IsFrameIndex(found[i], T)
            /\ n >= T => Len(found) = T
            /\ (1 <= n /\ n <= T) =>
                   found = Unique([i \in 1..n |->
                                      NumVal(((2 * (i - 1) + 1) * T) \div (2 * n))])

\* C12 witness: three frames of a video of eight: indices 1, 4 and 6
C12_Witness ==
    /\ SampledByCount
    /\ extractor.totalFrames = NumVal(8)
    /\ extraction.options.totalFrames = NumVal(3)
    /\ extraction.indices = <<NumVal(1), NumVal(4), NumVal(6)>>

\* the rendered arguments of a frame with the two seek times
SeekArgs(path, coarse, precise) ==
    Returned(<<"-ss", toFixed(coarse), "-i", path, "-ss", toFixed(precise),
               "-vframes", "1", "-q:v", "2", "-f", "image2pipe", "pipe:1">>)

\* C13: for every dispatched frame with target time t = index / fps >= 0 and
\* keyframe interval K > 0, the coarse seek is max(0, t - K) and is passed as
\* the input-side -ss, the precise offset is t - coarse and is passed as the
\* output-side -ss; coarse >= 0, coarse + precise = t, precise = min(t, K).
C13_TwoStageSeek ==
    \A i \in 1..Len(extraction.indices) :
        LET t == Divide(extraction.indices[i], extractor.fps)
            K == extractor.keyframeIntervalSeconds
            coarse == extraction.plans[i].coarseSeekTime
            precise == extraction.plans[i].preciseSeekOffset
        IN  (~Less(t, NumVal(0)) /\ ~IsNaN(t) /\ Less(NumVal(0), K)) =>
                /\ coarse = (IF Less(K, t) THEN Minus(t, K) ELSE NumVal(0))
                /\ ~Less(coarse, NumVal(0))
                /\ Plus(coarse, precise) = t
                /\ precise = (IF Less(t, K) THEN t ELSE K)
                /\ extraction.args[i] = SeekArgs(extractor.videoPath, coarse, precise)

\* C13 witness: the examples of the specification, at 0.5 frames per second
\* and a keyframe interval of 5 s: frame 5 (10 s) seeks 5 s and then 5 s,
\* frame 1 (2 s) seeks 0 s and then 2 s
C13_Witness ==
    /\ extractor.fps = Frac(1, 2) /\ extractor.keyframeIntervalSeconds = NumVal(5)
    /\ Len(extraction.indices) = 8
    /\ extraction.indices[6] = NumVal(5)
    /\ extraction.plans[6] = [coarseSeekTime |-> NumVal(5), preciseSeekOffset |-> NumVal(5)]
    /\ extraction.args[6] = SeekArgs("input3.mp4", NumVal(5), NumVal(5))
    /\ extraction.args[6].value[2] = "5.000000"
    /\ extraction.indices[2] = NumVal(1)
    /\ extraction.plans[2] = [coarseSeekTime |-> NumVal(0), preciseSeekOffset |-> NumVal(2)]
    /\ extraction.args[2].value[2] = "0.000000" /\ extraction.args[2].value[6] = "2.000000"

\* the extract call has dispatched its frames (it passed validateInitialized)
Dispatched ==
    extraction.promise # NoPromise
    /\ extraction.promise # Rejected(Error(MsgNotInitialized))
\* the outcome of the executeFfmpeg call of frame i, once it has settled
OutcomeOf(i) ==
    extraction.settled[CHOOSE k \in 1..Len(extraction.settled) :
                           extraction.settled[k].frame = i].outcome
HasImage(outcome) ==
    outcome.state = "fulfilled" /\ outcome.value.output # Undefined
    /\ Len(outcome.value.output.bytes) > 0
\* the buffers of the frames that yielded an image, in dispatch order
SuccessfulBuffers ==
    LET ok == SelectSeq(Indices(extraction.indices), LAMBDA i : HasImage(OutcomeOf(i)))
    IN  [k \in 1..Len(ok) |-> OutcomeOf(ok[k]).value.output]

\* C14: an extract call that has dispatched N frames never rejects, whatever
\* the outcomes of the frames and the order in which they settle; it resolves
\* only once all N have settled, with the buffers of the frames that yielded
\* an image, in dispatch order; a frame that failed or yielded no output
\* contributes nothing.
C14_BatchResolves ==
    Dispatched =>
        /\ extraction.promise.state # "rejected"
        /\ \A i \in 1..Len(extraction.slots) : extraction.slots[i].state # "rejected"
        /\ extraction.promise.state = "fulfilled" =>
            /\ Len(extraction.settled) = Len(extraction.indices)
            /\ extraction.promise.value = SuccessfulBuffers

\* C14 witness: three frames that settle in the reverse of their dispatch
\* order, the second with a failure; the result holds the first and the third
C14_Witness ==
    /\ Len(extraction.indices) = 3 /\ Len(extraction.settled) = 3
    /\ extraction.settled[1].frame = 3
    /\ extraction.settled[2].frame = 2 /\ extraction.settled[2].outcome.state = "rejected"
    /\ extraction.settled[3].frame = 1
    /\ extraction.promise = Fulfilled(<<BufVal(<<0>>), BufVal(<<4>>)>>)

\* the runner has a subprocess that has not exited
Live == child.state = "running"

\* C15: a call of kill made while the runner has no live subprocess (none
\* was spawned, the spawn failed, or the subprocess has closed) sends no
\* signal and changes no field of the runner, no promise and no
\* notification; a call made while the subprocess is live sends it one
\* signal and neither settles the promise of execute nor emits anything.
\* The promise is settled only in a step in which the subprocess delivers
\* its error or close event.
C15_KillOnlySignals ==
    [][/\ killCalls' # killCalls =>
            /\ UNCHANGED <<cmdVars, calls, rendered, pc, fn, outer, listeners,
                           registered, process, emitted, exec, delivered>>
            /\ child'.state = child.state /\ child'.code = child.code
            /\ child'.signals = (IF Live THEN child.signals + 1 ELSE child.signals)
       /\ (Settled(exec'.promise) /\ ~Settled(exec.promise)) =>
            (child'.state \in {"errored", "closed"} /\ child'.state # child.state)]_vars

\* C15 witness: kill was called on a live subprocess, which has the signal
\* and still runs; the promise is pending and only `start` was emitted
C15_Witness ==
    /\ killCalls = 1 /\ child.signals = 1 /\ Live
    /\ exec.promise = Pending
    /\ Len(emitted) = 1

\* C16 as stated: the runner holds a handle while its subprocess runs, and
\* holds none in any state after the close event of that subprocess.
C16_HandleCleared ==
    /\ Live => process # Null
    /\ child.state = "closed" => process = Null

\* the calls of execute whose subprocess has not exited
LiveRuns == {i \in 1..Len(runs) : runs[i].child.state = "running"}

\* C17 as stated: whatever execute and kill calls were made on the runner, at
\* most one of the subprocesses it spawned is alive, and a live subprocess is
\* the one the handle of the runner refers to.
C17_OneLiveSubprocess ==
    /\ Cardinality(LiveRuns) <= 1
    /\ \A i \in LiveRuns : process = Some(i)

\* the positions of the `end` and `error` notifications
Terminals == {i \in 1..Len(emitted) : emitted[i].ev \in {"end", "error"}}

\* C18 as stated: of `end` and `error` at most one notification is emitted
\* for an execute call, nothing is emitted after it, and once the subprocess
\* has delivered its close event exactly one has been emitted; this includes
\* a failed spawn, with its error event followed by a close event.
C18_TerminalNotification ==
    /\ Cardinality(Terminals) <= 1
    /\ \A i \in Terminals : i = Len(emitted)
    /\ child.state = "closed" => Cardinality(Terminals) = 1

\* the command line of an argument vector: the path, then a space and the
\* argument for each argument
RECURSIVE SpaceJoined(_, _)
SpaceJoined(head, args) ==
    IF args = <<>> THEN head ELSE SpaceJoined(head \o " " \o Head(args), Tail(args))

\* C19: once execute has spawned (or failed to spawn) its subprocess, the
\* first notification is `start` with the path of the executable followed by
\* the space-joined rendered arguments, and no other notification is a
\* `start`; before that point nothing has been emitted.
C19_StartFirst ==
    /\ child.state = "none" => emitted = <<>>
    /\ child.state # "none" =>
        /\ rendered.ok
        /\ emitted # <<>>
        /\ emitted[1] = StartEvent(SpaceJoined("ffmpeg", rendered.value))
        /\ \A i \in 2..Len(emitted) : emitted[i].ev # "start"

\* C19 witness: the command line of demo.ts is the first of five
\* notifications, the others being those of two stderr lines and `end`
C19_Witness ==
    /\ Len(emitted) = 5
    /\ emitted[1] =
           StartEvent("ffmpeg -ss 00:00:00 -i in.mp4 -vframes 1 -q:v 2 -f image2pipe pipe:1")
    /\ emitted[2].ev = "stderr" /\ emitted[3].ev = "progress"
    /\ emitted[4].ev = "stderr" /\ emitted[5].ev = "end"

\* the lines of the `stderr` notifications emitted so far, in order
StderrLines ==
    LET at == SelectSeq(Indices(emitted), LAMBDA i : emitted[i].ev = "stderr")
    IN  [k \in 1..Len(at) |-> emitted[at[k]].line]
\* the stderr text received so far, cut at every \r and every \n
BoundaryPieces ==
    Pieces(exec.stderr,
           SelectSeq(Indices(exec.stderr), LAMBDA i : exec.stderr[i] \in {CR, LF}),
           [i \in 1..Len(exec.stderr) |-> 1])
NonEmpty(lines) == SelectSeq(lines, LAMBDA l : l # <<>>)

\* C20: at every point of an execute call, also after the close event, the
\* non-empty lines emitted as `stderr` notifications are, in order and each
\* once, the non-empty stretches of the received text that are followed by a
\* \r or a \n; the text after the last \r or \n is held back in the buffer
\* and has not been emitted; and the number of notifications is at least the
\* number of line ends of the text (with \r\n as one) and at most the number
\* of its \r and \n characters.
C20_LinesAfterBoundary ==
    exec.promise # NoPromise =>
        LET pieces == BoundaryPieces
        IN  /\ NonEmpty(StderrLines) = NonEmpty(SubSeq(pieces, 1, Len(pieces) - 1))
            /\ exec.stderrBuffer = pieces[Len(pieces)]
            /\ Len(SplitLines(exec.stderr)) - 1 <= Len(StderrLines)
            /\ Len(StderrLines) <= Len(pieces) - 1

\* C20 witness: the subprocess has closed after a\n, a and \ra; the two
\* completed lines were emitted, and the a after the last line end is still
\* in the buffer
C20_Witness ==
    /\ child.state = "closed"
    /\ delivered.err = <<<<"a", LF>>, <<"a">>, <<CR, "a">>>>
    /\ StderrLines = <<<<"a">>, <<"a">>>>
    /\ exec.stderrBuffer = <<"a">>

\* the `stderr` lines that the handler emits when the bytes received so far
\* arrive as one chunk
LinesOfOneChunk ==
    LET ran == OnStderrData(NewExec, BufferConcat(delivered.err))
        at == SelectSeq(Indices(ran.emits), LAMBDA i : ran.emits[i].ev = "stderr")
    IN  [k \in 1..Len(at) |-> ran.emits[at[k]].line]

\* C21: whatever the chunks in which the stderr bytes arrived, the `stderr`
\* lines emitted so far are the lines emitted when the same bytes arrive as
\* one chunk.
C21_ChunkingIndependent ==
    exec.promise # NoPromise => StderrLines = LinesOfOneChunk

\* the extract call sampled by target rate R on a video of T frames at S
\* frames per second
SampledByRate ==
    /\ extraction.promise # NoPromise
    /\ extraction.options.totalFrames = Undefined
    /\ extraction.options.fps # Undefined
\* the multiples of k below total, from 0
EveryKth(k, total) == [i \in 1..((total + k - 1) \div k) |-> NumVal((i - 1) * k)]

\* C22 as stated: sampling by rate returns 0, k, 2k, ... below T with
\* k = round(S / R), for every S, R and T for which k is at least 1.
C22_EveryRoundedKth ==
    SampledByRate =>
        LET R == extraction.options.fps.n
            S == extractor.fps
            T == extractor.totalFrames.n
            k == (2 * S.n + S.d * R) \div (2 * S.d * R)
        IN  k >= 1 => extraction.indices = EveryKth(k, T)

\* C22 amended: sampling by rate R >= 1 on a video of T >= 1 frames at S > 0
\* frames per second returns, without repetition and in increasing order, the
\* values floor(i * S / R) for i = 0, 1, 2, ... as long as i * S / R < T; they
\* start at 0 and are in [0, T), and when S / R is a whole number k they are
\* every k-th frame 0, k, 2k, ... below T.
C22_SamplingByRate ==
    SampledByRate =>
        LET R == extraction.options.fps.n
            S == extractor.fps
            T == extractor.totalFrames.n
            found == extraction.indices
            steps == (T * S.d * R + S.n - 1) \div S.n
        IN  /\ R >= 1 /\ T >= 1 /\ S.n >= 1
            /\ found = Unique([i \in 1..steps |-> NumVal(((i - 1) * S.n) \div (S.d * R))])
            /\ found # <<>> /\ found[1] = NumVal(0)
            /\ \A i \in 1..Len(found) : IsFrameIndex(found[i], T)
            /\ \A i \in 1..(Len(found) - 1) : found[i].n < found[i + 1].n
            /\ S.n % (S.d * R) = 0 => found = EveryKth(S.n \div (S.d * R), T)

\* C22 witness: one frame per second of a video of eight frames at 2.5 frames
\* per second: indices 0, 2, 5 and 7
C22_Witness ==
    /\ SampledByRate
    /\ extractor.fps = Frac(5, 2)
    /\ extractor.totalFrames = NumVal(8)
    /\ extraction.options.fps = NumVal(1)
    /\ extraction.indices = <<NumVal(0), NumVal(2), NumVal(5), NumVal(7)>>

\* the text of the chunks of each stream of the probe subprocess, each chunk
\* decoded on its own, in arrival order
ProbeStdoutText == ChunksText(probing.delivered.out)
ProbeStderrText == ChunksText(probing.delivered.err)

\* C23: a probe call has no outcome while its subprocess runs and one outcome
\* from then on.  When the subprocess closes with code 0 the promise is
\* fulfilled with JSON.parse of the stdout text if that text is JSON and
\* rejected with an error that holds the parse error and the raw stdout text
\* if it is not; when it closes with another code the promise is rejected
\* with an error that holds the code and the stderr text; when the spawn
\* fails the promise is rejected with the spawn error and the close event
\* that follows does not change it.  The stdout and stderr text are those of
\* all chunks delivered, in arrival order.
C23_ProbeOutcome ==
    LET c == probing.child
        parsed == JSONParse(ProbeStdoutText)
    IN  /\ probing.stdout = ProbeStdoutText
        /\ probing.stderr = ProbeStderrText
        /\ c.state = "none" => probing.promise = NoPromise
        /\ c.state \in {"running", "spawnFailed"} => probing.promise = Pending
        /\ (c.state = "closed" /\ c.ran /\ c.code = Some(0) /\ parsed.ok) =>
               probing.promise = Fulfilled(parsed.value)
        /\ (c.state = "closed" /\ c.ran /\ c.code = Some(0) /\ ~parsed.ok) =>
               /\ probing.promise.state = "rejected"
               /\ probing.promise.reason.name = "Error"
               /\ probing.promise.reason.message =
                      <<"Failed to parse ffprobe JSON output: "
                            \o ErrorString(parsed.error) \o LF>> \o ProbeStdoutText
        /\ (c.state = "closed" /\ c.ran /\ c.code # Some(0)) =>
               /\ probing.promise.state = "rejected"
               /\ probing.promise.reason.name = "Error"
               /\ probing.promise.reason.message =
                      <<"ffprobe exited with code " \o CodeString(c.code) \o LF>>
                          \o ProbeStderrText
        /\ (c.state = "errored" \/ (c.state = "closed" /\ ~c.ran)) =>
               probing.promise = Rejected(ProbeSpawnError)

\* C23 witness: the subprocess has closed with code 0 after the two stdout
\* chunks of an object and a stderr chunk; the promise is fulfilled with the
\* object
C23_Witness ==
    /\ probing.child.state = "closed" /\ probing.child.code = Some(0)
    /\ probing.delivered.out = <<<<"{">>, <<"}", LF>>>>
    /\ Len(probing.delivered.err) = 1
    /\ probing.promise = Fulfilled(JSONObject(<<>>))
====
